---- MODULE Spec2Model ----
(***************************************************************************)
(* Model of the mitx-grading-library core:                                 *)
(*   - mitxgraders/helpers/specify_domain.py : the SpecifyDomain decorator *)
(*     that validates the shapes of a function's inputs;                   *)
(*   - graders/sampling.py : the sampling sets (RealInterval, ...,         *)
(*     RandomFunction, SpecificFunctions).                                 *)
(*                                                                         *)
(* Python strings are modelled as TLA+ strings, so every message is built  *)
(* exactly as the code's format() calls build it.                          *)
(***************************************************************************)
EXTENDS Integers, Sequences, FiniteSets, TLC

VARIABLES
    \* ---- specify_domain.py: one decorated function and its last call ----
    shapes,        \* make_decorator's *shapes: tuple of numpy shape tuples
    display_name,  \* make_decorator's display_name ("" models None)
    args,          \* the *args of the last call of _func
    outcome,       \* "idle" | "returned" | "DomainError"
    message,       \* the DomainError's message ("" when none was raised)
    lines,         \* the report lines joined into the message (line 221-229)
    validated,     \* the schema(arg) runs of the call: <<[index, arg, res]>>
    invoked,       \* the calls func(*args) made: sequence of argument tuples
    result,        \* what _func returned (NoResult when it raised)
    \* ---- sampling.py: the sampling sets of one process ----
    np_state,      \* the state of numpy's global generator (np.random)
    py_state,      \* the state of the random module's global generator
    samplers,      \* the constructed sampling sets
    given,         \* what each constructor was called with
    samples,       \* the gen_sample() calls so far: <<[sampler, value]>>
    calls,         \* the invocations of sampled callables so far
    \* ---- sampling.py: a second run of the same process, for comparing ----
    seeds,         \* what the generators were seeded with in the two runs
    np_state2,     \* numpy's global generator in the second run
    py_state2,     \* the random module's global generator in the second run
    samples2,      \* the second run's gen_sample() calls so far
    \* ---- sampling.py: threads calling gen_sample() concurrently ----
    threads,       \* per thread: where it is in its gen_sample() call
    returned       \* the sample a gen_sample() call of a thread returned last

domainVars == <<shapes, display_name, args, outcome, message, lines,
                validated, invoked, result>>

samplingVars == <<np_state, py_state, samplers, given, samples, calls>>

secondRunVars == <<seeds, np_state2, py_state2, samples2>>

threadVars == <<threads, returned>>

vars == <<shapes, display_name, args, outcome, message, lines,
          validated, invoked, result,
          np_state, py_state, samplers, given, samples, calls,
          seeds, np_state2, py_state2, samples2, threads, returned>>

\* ---------------------------------------------------------------- bounds
MaxShapes == 4      \* most declared input shapes of one decorator
MaxArgs == 4        \* most arguments of one call
RngMod == 3         \* a uniform variate is k/RngMod, k in 0..RngMod-1
MaxSamples == 2     \* most gen_sample() calls of one behaviour
MaxInvocations == 3 \* most invocations of sampled callables
MaxVariates == 6    \* no gen_sample() reads np.random's stream beyond this
MaxThreads == 2     \* most threads calling gen_sample() concurrently
MaxDraws == 1       \* threads start no call once this many variates are read

\* ------------------------------------------------------------- utilities
RECURSIVE SeqsUpTo(_, _)
\* every sequence over S of length <= n
SeqsUpTo(S, n) ==
    IF n = 0 THEN {<<>>}
    ELSE LET shorter == SeqsUpTo(S, n - 1)
         IN  shorter \cup {Append(s, x) : s \in {t \in shorter : Len(t) = n - 1}, x \in S}

Min(a, b) == IF a < b THEN a ELSE b
Max(a, b) == IF a < b THEN b ELSE a

\* Python's zip(): pairs up to the shorter of the two sequences
Zip(s, t) == [i \in 1..Min(Len(s), Len(t)) |-> <<s[i], t[i]>>]

\* "\n\t".join(ls)
RECURSIVE Join(_)
Join(ls) ==
    IF Len(ls) = 0 THEN ""
    ELSE IF Len(ls) = 1 THEN ls[1]
    ELSE ls[1] \o "\n\t" \o Join(Tail(ls))

\* ------------------------------------------------- values passed as inputs
\* A Python object as far as the validators look at it: its class, and for a
\* MathArray its numpy shape and (for a 0-dimensional one) its item().
Obj(cls, shape, item) == [cls |-> cls, shape |-> shape, item |-> item]

Number5 == Obj("Number", <<>>, 5)               \* 5
Scalar5 == Obj("MathArray", <<>>, 5)            \* MathArray(5)
Vec3    == Obj("MathArray", <<3>>, 0)           \* MathArray([2, -1, 3])
Cat     == Obj("str", <<>>, 0)                  \* 'cat'

Objects == {Number5, Scalar5, Vec3, Cat}

NoResult == [returned |-> FALSE, func |-> "", args |-> <<>>]

\* the wrapped function: an arbitrary function, modelled as the symbolic
\* application of func to the arguments it is given
func_name_of_func == "cross"
func(a) == [returned |-> TRUE, func |-> func_name_of_func, args |-> a]

\* --------------------------------------------------------- descriptions
low_ordinal(n) ==
    CASE n = 1 -> "1st"
      [] n = 2 -> "2nd"
      [] n = 3 -> "3rd"
      [] OTHER -> ToString(n) \o "th"

\* MathArray.get_description(shape)
MathArrayDescription(shape) ==
    CASE Len(shape) = 0 -> "scalar"
      [] Len(shape) = 1 -> "vector of length " \o ToString(shape[1])
      [] Len(shape) = 2 -> "matrix of shape (rows: " \o ToString(shape[1])
                           \o ", cols: " \o ToString(shape[2]) \o ")"

get_description(obj) ==
    IF obj.cls = "Number" THEN "scalar"
    ELSE IF obj.cls = "MathArray" THEN MathArrayDescription(obj.shape)
    ELSE obj.cls

\* ------------------------------------------------------------ validators
\* a validator's run: the value it returns, or the Invalid it raises
Valid(value) == [ok |-> TRUE, value |-> value, error_message |-> ""]
Invalid(msg) == [ok |-> FALSE, value |-> Cat, error_message |-> msg]

is_scalar_matharray(obj) == obj.cls = "MathArray" /\ Len(obj.shape) = 0

number_validator_no_unwrap(obj) ==
    IF obj.cls = "Number" \/ is_scalar_matharray(obj) THEN Valid(obj)
    ELSE Invalid("received a " \o get_description(obj) \o ", expected a scalar")
number_validator(obj) ==
    IF obj.cls = "Number" THEN Valid(obj)
    ELSE IF is_scalar_matharray(obj) THEN Valid(Obj("Number", <<>>, obj.item))
    ELSE Invalid("received a " \o get_description(obj) \o ", expected a scalar")

shape_validator(shape, obj) ==
    IF obj.cls = "MathArray" /\ obj.shape = shape THEN Valid(obj)
    ELSE Invalid("received a " \o get_description(obj) \o ", expected a "
                 \o MathArrayDescription(shape))

has_shape(shape, obj) ==
    IF shape = <<1>> THEN number_validator(obj)
    ELSE shape_validator(shape, obj)

\* SCHEMA_SHAPE: a positive integer k becomes (k,), a list becomes a tuple
IntSpec(k) == [kind |-> "int", dims |-> <<k>>]
ListSpec(l) == [kind |-> "list", dims |-> l]
SCHEMA_SHAPE(spec) == IF spec.kind = "int" THEN <<spec.dims[1]>> ELSE spec.dims

InputShapeSpecs == {IntSpec(1), ListSpec(<<3>>)}
DisplayNames == {"", "xprod"}

\* ------------------------------------------------------------- _func
\* line 202
ArityTooFewOnly(shp, a) == Len(shp) > Len(a)
ArityMismatch(shp, a) == Len(shp) # Len(a)

\* line 200
FuncName(dn) == IF dn # "" THEN dn ELSE func_name_of_func

\* lines 203-207
ArityMessage(name, expected, received) ==
    "There was an error evaluating function " \o name \o "(...): expected "
    \o ToString(expected) \o " inputs, but received " \o ToString(received) \o "."

\* lines 210-216: run every schema on its argument, collecting the outcomes
ValidateUntilFirstError(shp, a) ==
    LET pairs == Zip(shp, a)
        firstBad == {i \in 1..Len(pairs) : ~has_shape(pairs[i][1], pairs[i][2]).ok}
        n == IF firstBad = {} THEN Len(pairs)
             ELSE CHOOSE i \in firstBad : \A j \in firstBad : i <= j
    IN  [i \in 1..n |-> [index |-> i, arg |-> pairs[i][2],
                         res |-> has_shape(pairs[i][1], pairs[i][2])]]
ValidateAll(shp, a) ==
    LET pairs == Zip(shp, a)
    IN  [i \in 1..Len(pairs) |-> [index |-> i, arg |-> pairs[i][2],
                                  res |-> has_shape(pairs[i][1], pairs[i][2])]]

\* line 218
AllOk(runs) == \A i \in 1..Len(runs) : runs[i].res.ok

\* line 219: the arguments func is called with
CallArgsValidated(a, runs) == [i \in 1..Len(runs) |-> runs[i].res.value]
CallArgs(a, runs) == a

\* lines 222-229: one report line per (shape, error) pair
ReportLine(index, shape, run) ==
    LET ordinal == low_ordinal(index)
    IN  IF ~run.res.ok
        THEN ordinal \o " input has an error: " \o run.res.error_message
        ELSE LET expected == IF shape = <<1>> THEN "scalar"
                             ELSE MathArrayDescription(shape)
             IN  ordinal \o " input is ok: received a " \o expected \o " as expected"

ReportLines(shp, runs) ==
    LET pairs == Zip(shp, runs)
    IN  [i \in 1..Len(pairs) |-> ReportLine(i, pairs[i][1], pairs[i][2])]

\* line 221
Header(name) == "There was an error evaluating function " \o name \o "(...)"

\* lines 201-232: the whole call
WrappedFunc(a) ==
    LET name == FuncName(display_name) IN
    /\ outcome = "idle"
    /\ args' = a
    /\ IF ArityMismatch(shapes, a)
       THEN /\ outcome' = "DomainError"
            /\ message' = ArityMessage(name, Len(shapes), Len(a))
            /\ lines' = <<>>
            /\ validated' = <<>>
            /\ invoked' = <<>>
            /\ result' = NoResult
       ELSE LET runs == ValidateAll(shapes, a) IN
            /\ validated' = runs
            /\ IF AllOk(runs)
               THEN /\ outcome' = "returned"
                    /\ message' = ""
                    /\ lines' = <<>>
                    /\ invoked' = <<CallArgs(a, runs)>>
                    /\ result' = func(CallArgs(a, runs))
               ELSE LET ls == <<Header(name)>> \o ReportLines(shapes, runs) IN
                    /\ outcome' = "DomainError"
                    /\ lines' = ls
                    /\ message' = Join(ls)
                    /\ invoked' = <<>>
                    /\ result' = NoResult
    /\ UNCHANGED <<shapes, display_name>>
    /\ UNCHANGED samplingVars
    /\ UNCHANGED secondRunVars
    /\ UNCHANGED threadVars

NoSeeds == [np |-> 0, py |-> 0, np2 |-> 0, py2 |-> 0]

\* no gen_sample() call has returned to a thread
NoSample == [sampler |-> 0, value |-> 0, cut |-> FALSE]

\* no thread has been started
ThreadsIdle == threads = <<>> /\ returned = NoSample

\* a generator as the process finds it: seed 0, nothing read from its
\* stream, no stretch of the stream being read
Unseeded == [seed |-> 0, pos |-> 0, ahead |-> <<>>]

SecondRunIdle ==
    /\ seeds = NoSeeds
    /\ np_state2 = Unseeded
    /\ py_state2 = Unseeded
    /\ samples2 = <<>>

\* SpecifyDomain.__init__ / make_decorator / decorator(func)
InitDomain ==
    /\ \E specs \in SeqsUpTo(InputShapeSpecs, MaxShapes) :
          shapes = [i \in 1..Len(specs) |-> SCHEMA_SHAPE(specs[i])]
    /\ display_name \in DisplayNames
    /\ args = <<>>
    /\ outcome = "idle"
    /\ message = ""
    /\ lines = <<>>
    /\ validated = <<>>
    /\ invoked = <<>>
    /\ result = NoResult
    /\ np_state = Unseeded
    /\ py_state = Unseeded
    /\ samplers = <<>>
    /\ given = <<>>
    /\ samples = <<>>
    /\ calls = <<>>
    /\ SecondRunIdle
    /\ ThreadsIdle

\* the caller has taken the result (or caught the error): ready for the next call
Finish ==
    /\ outcome # "idle"
    /\ args' = <<>>
    /\ outcome' = "idle"
    /\ message' = ""
    /\ lines' = <<>>
    /\ validated' = <<>>
    /\ invoked' = <<>>
    /\ result' = NoResult
    /\ UNCHANGED <<shapes, display_name>>
    /\ UNCHANGED samplingVars
    /\ UNCHANGED secondRunVars
    /\ UNCHANGED threadVars

NextDomain ==
    \/ \E a \in SeqsUpTo(Objects, MaxArgs) : WrappedFunc(a)
    \/ Finish

SpecDomain == InitDomain /\ [][NextDomain]_vars

\* ======================================================================
\*                              sampling.py
\* ======================================================================

\* -------------------------------------------------- the random generators
\* A generator's seed fixes its whole stream of variates, and the variates
\* of one stream are free of each other: whatever has been handed out, the
\* next variate can be any.  So a stream is not stored; it is decided as it
\* is read.  Each gen_sample() call is given, in ahead, the stretch of the
\* stream it reads, any stretch at all.  seed is what the generator was
\* seeded with and pos counts the variates read since: two generators of
\* one kind with the same seed at the same position read the same stretch,
\* and the streams of different seeds have nothing to do with each other.
\* A variate u stands for the point u/RngMod of [0, 1); real numbers are
\* kept as numerators over the denominator RngMod.
Variates == 0..(RngMod - 1)
RngWord == RngMod * RngMod

\* the stretches of n variates
Streams(n) == [1..n -> Variates]

\* random.seed(k) / np.random.seed(k)
Seeded(k) == [Unseeded EXCEPT !.seed = k]

\* generator g during a call that reads the stretch w, and after the call
Reading(g, w) == [g EXCEPT !.ahead = w]
Rest(g) == [g EXCEPT !.ahead = <<>>]

Draw(s) ==
    [u |-> Head(s.ahead),
     state |-> [seed |-> s.seed, pos |-> s.pos + 1, ahead |-> Tail(s.ahead)]]

\* np.random.random_sample()
random_sample(s) == Draw(s)

\* np.random.randint(low, high): an integer of [low, high), scaled from a
\* word of two variates, so that a range of up to RngWord members has each
\* of its members drawn; a range of one member is returned without drawing
randint(low, high, s) ==
    IF high - low = 1 THEN [value |-> low, state |-> s]
    ELSE LET hi == Draw(s)
             lo == Draw(hi.state)
         IN  [value |-> low + (((hi.u * RngMod + lo.u) * (high - low))
                                   \div RngWord),
              state |-> lo.state]

\* np.random.rand(d0, d1, d2): d0*d1*d2 successive draws, in C order
RECURSIVE DrawN(_, _)
DrawN(s, n) ==
    IF n = 0 THEN [us |-> <<>>, state |-> s]
    ELSE LET d == Draw(s)
             rest == DrawN(d.state, n - 1)
         IN  [us |-> <<d.u>> \o rest.us, state |-> rest.state]

rand(d0, d1, d2, s) ==
    LET r == DrawN(s, d0 * d1 * d2)
    IN  [tensor |-> [i \in 1..d0 |-> [j \in 1..d1 |-> [k \in 1..d2 |->
                        r.us[((i - 1) * d1 + (j - 1)) * d2 + k]]]],
         state |-> r.state]

\* random.choice(seq): seq[int(random() * len(seq))]
choice(seq, s) ==
    LET d == Draw(s)
    IN  [value |-> seq[((d.u * Len(seq)) \div RngMod) + 1], state |-> d.state]

\* ---------------------------------------------------------- constructors
\* NumberRange: [start, stop] becomes {'start': start, 'stop': stop}
NumberRange(range) == [start |-> range[1], stop |-> range[2]]

\* TupleOfType / ListOfType: a bare value becomes a one-element sequence
Bare(v) == [bare |-> TRUE, items |-> <<v>>]
Several(vs) == [bare |-> FALSE, items |-> vs]
TupleOfType(g) == g.items

\* RealInterval.__init__ and IntegerRange.__init__: swap out-of-order bounds
OrderedNoSwap(config) == config
Ordered(config) ==
    IF config.start > config.stop
    THEN [start |-> config.stop, stop |-> config.start]
    ELSE config

RealInterval(range) ==
    [cls |-> "RealInterval", config |-> Ordered(NumberRange(range))]

IntegerRange(range) ==
    [cls |-> "IntegerRange", config |-> Ordered(NumberRange(range))]

DiscreteSet(g) == [cls |-> "DiscreteSet", config |-> TupleOfType(g)]

ComplexRectangle(g) ==
    LET config == [re |-> NumberRange(g.re), im |-> NumberRange(g.im)]
    IN  [cls |-> "ComplexRectangle", config |-> config,
         re |-> RealInterval(<<config.re.start, config.re.stop>>),
         im |-> RealInterval(<<config.im.start, config.im.stop>>)]

ComplexSector(g) ==
    LET config == [modulus |-> NumberRange(g.modulus),
                   argument |-> NumberRange(g.argument)]
    IN  [cls |-> "ComplexSector", config |-> config,
         modulus |-> RealInterval(<<config.modulus.start, config.modulus.stop>>),
         argument |-> RealInterval(<<config.argument.start, config.argument.stop>>)]

RandomFunction(g) ==
    [cls |-> "RandomFunction",
     config |-> [input_dim |-> g.input_dim, output_dim |-> g.output_dim,
                 num_terms |-> g.num_terms, center |-> 0, amplitude |-> 10]]

SpecificFunctions(g) == [cls |-> "SpecificFunctions", config |-> TupleOfType(g)]

\* ------------------------------------------------------------ gen_sample
\* Each returns the sample and the generators' states after the call.
RealInterval_gen_sample(self, np, py) ==
    LET start == self.config.start
        stop == self.config.stop
        d == random_sample(np)
    IN  [value |-> start * RngMod + (stop - start) * d.u, np |-> d.state, py |-> py]

IntegerRange_gen_sample_exclusive(self, np, py) ==
    LET r == randint(self.config.start, self.config.stop, np)
    IN  [value |-> r.value, np |-> r.state, py |-> py]
IntegerRange_gen_sample(self, np, py) ==
    LET r == randint(self.config.start, self.config.stop + 1, np)
    IN  [value |-> r.value, np |-> r.state, py |-> py]

DiscreteSet_gen_sample_first(self, np, py) ==
    [value |-> self.config[1], np |-> np, py |-> Draw(py).state]
DiscreteSet_gen_sample(self, np, py) ==
    LET r == choice(self.config, py)
    IN  [value |-> r.value, np |-> np, py |-> r.state]

ComplexRectangle_gen_sample(self, np, py) ==
    LET re == RealInterval_gen_sample(self.re, np, py)
        im == RealInterval_gen_sample(self.im, re.np, re.py)
    IN  [value |-> [re |-> re.value, im |-> im.value], np |-> im.np, py |-> im.py]

\* modulus * exp(1j * argument), kept in polar form
ComplexSector_gen_sample(self, np, py) ==
    LET modulus == RealInterval_gen_sample(self.modulus, np, py)
        argument == RealInterval_gen_sample(self.argument, modulus.np, modulus.py)
    IN  [value |-> [modulus |-> modulus.value, argument |-> argument.value],
         np |-> argument.np, py |-> argument.py]

\* The closure f of lines 257-282 with the cells it closes over.
\*   A = rand/2 + 0.5            kept as numerators over 2*RngMod
\*   B = 2*pi*(rand - 0.5)       kept in units of pi/RngMod
\*   C = 2*pi*rand               kept in units of pi/RngMod
RandomFunction_gen_sample(self, np, py) ==
    LET output_dim == self.config.output_dim
        input_dim == self.config.input_dim
        num_terms == self.config.num_terms
        ra == rand(output_dim, num_terms, input_dim, np)
        rb == rand(output_dim, num_terms, input_dim, ra.state)
        rc == rand(output_dim, num_terms, input_dim, rb.state)
        Cells(t, F(_)) == [i \in 1..output_dim |-> [j \in 1..num_terms |->
                              [k \in 1..input_dim |-> F(t[i][j][k])]]]
        FA(u) == u + RngMod
        FB(u) == 2 * u - RngMod
        FC(u) == 2 * u
    IN  [value |-> [A |-> Cells(ra.tensor, FA), B |-> Cells(rb.tensor, FB),
                    C |-> Cells(rc.tensor, FC),
                    output_dim |-> output_dim, input_dim |-> input_dim,
                    num_terms |-> num_terms],
         np |-> rc.state, py |-> py]

SpecificFunctions_gen_sample(self, np, py) ==
    LET r == choice(self.config, py)
    IN  [value |-> r.value, np |-> np, py |-> r.state]

\* ------------------------------------------------- the sampled callable f
NoOutput == [computed |-> FALSE, vector |-> FALSE, components |-> <<>>]

\* the cells f reads: its own closure's
ClosureOfLatest(fi) ==
    LET own == {k \in 1..Len(samples) : samples[k].sampler = samples[fi].sampler}
    IN  samples[CHOOSE k \in own : \A m \in own : m <= k].value
ClosureOf(fi) == samples[fi].value

\* line 260
WrongArityTooFewOnly(a, input_dim) == Len(a) < input_dim
WrongArity(a, input_dim) == Len(a) # input_dim

\* lines 257-280: f(*args) for the closure cl of a sample of sampler self
f(cl, self, a) ==
    IF WrongArity(a, cl.input_dim)
    THEN [raised |-> "ConfigError",
          msg |-> "Expected " \o ToString(cl.input_dim)
                  \o " arguments, but received " \o ToString(Len(a)),
          output |-> NoOutput]
    ELSE LET \* A * sin(B * xarray + C), summed over j and k, for output i
             fullsum == [i \in 1..cl.output_dim |->
                 [sum |-> [j \in 1..cl.num_terms |-> [k \in 1..cl.input_dim |->
                              [A |-> cl.A[i][j][k], B |-> cl.B[i][j][k],
                               x |-> a[k], C |-> cl.C[i][j][k]]]],
                  amplitude |-> self.config.amplitude,
                  num_terms |-> self.config.num_terms,
                  center |-> self.config.center]]
         IN  [raised |-> "",
              msg |-> "",
              output |-> IF cl.output_dim > 1
                         THEN [computed |-> TRUE, vector |-> TRUE,
                               components |-> fullsum]
                         ELSE [computed |-> TRUE, vector |-> FALSE,
                               components |-> <<fullsum[1]>>]]

\* ------------------------------------------------------------- actions
\* the variates gen_sample() of a sampling set reads from np.random
NumpyDraws(self) ==
    CASE self.cls = "RealInterval" -> 1
      [] self.cls = "IntegerRange" -> 2
      [] self.cls = "ComplexRectangle" -> 2
      [] self.cls = "ComplexSector" -> 2
      [] self.cls = "RandomFunction" ->
            3 * self.config.output_dim * self.config.num_terms
              * self.config.input_dim
      [] OTHER -> 0

\* the variates gen_sample() of a sampling set reads from random
StdlibDraws(self) ==
    CASE self.cls = "DiscreteSet" -> 1
      [] self.cls = "SpecificFunctions" -> 1
      [] OTHER -> 0

\* The stretches of np.random's stream a gen_sample() call may read: every
\* stretch of the length it reads.
NumpyStreams(self) == Streams(NumpyDraws(self))

\* the stretches of random's stream a gen_sample() call is explored with
StdlibStreams(self) == Streams(StdlibDraws(self))

Sampled(i, r) ==
    /\ samples' = Append(samples, [sampler |-> i, value |-> r.value])
    /\ np_state' = Rest(r.np)
    /\ py_state' = Rest(r.py)
    /\ UNCHANGED <<samplers, given, calls>>
    /\ UNCHANGED domainVars
    /\ UNCHANGED secondRunVars
    /\ UNCHANGED threadVars

\* np.random's stream is read no further than MaxVariates, counting what
\* every generator of it has read
WithinStream(n) == np_state.pos + np_state2.pos + n <= MaxVariates

CanSample(i, cls) ==
    /\ samplers[i].cls = cls
    /\ Len(samples) < MaxSamples
    /\ WithinStream(NumpyDraws(samplers[i]))

RealIntervalGenSample ==
    \E i \in 1..Len(samplers) :
        /\ CanSample(i, "RealInterval")
        /\ \E w \in NumpyStreams(samplers[i]), v \in StdlibStreams(samplers[i]) :
              Sampled(i, RealInterval_gen_sample(samplers[i], Reading(np_state, w),
                  Reading(py_state, v)))

IntegerRangeGenSample ==
    \E i \in 1..Len(samplers) :
        /\ CanSample(i, "IntegerRange")
        /\ \E w \in NumpyStreams(samplers[i]), v \in StdlibStreams(samplers[i]) :
              Sampled(i, IntegerRange_gen_sample(samplers[i], Reading(np_state, w),
                  Reading(py_state, v)))

DiscreteSetGenSample ==
    \E i \in 1..Len(samplers) :
        /\ CanSample(i, "DiscreteSet")
        /\ \E w \in NumpyStreams(samplers[i]), v \in StdlibStreams(samplers[i]) :
              Sampled(i, DiscreteSet_gen_sample(samplers[i], Reading(np_state, w),
                  Reading(py_state, v)))

ComplexRectangleGenSample ==
    \E i \in 1..Len(samplers) :
        /\ CanSample(i, "ComplexRectangle")
        /\ \E w \in NumpyStreams(samplers[i]), v \in StdlibStreams(samplers[i]) :
              Sampled(i, ComplexRectangle_gen_sample(samplers[i], Reading(np_state, w),
                  Reading(py_state, v)))

ComplexSectorGenSample ==
    \E i \in 1..Len(samplers) :
        /\ CanSample(i, "ComplexSector")
        /\ \E w \in NumpyStreams(samplers[i]), v \in StdlibStreams(samplers[i]) :
              Sampled(i, ComplexSector_gen_sample(samplers[i], Reading(np_state, w),
                  Reading(py_state, v)))

RandomFunctionGenSample ==
    \E i \in 1..Len(samplers) :
        /\ CanSample(i, "RandomFunction")
        /\ \E w \in NumpyStreams(samplers[i]), v \in StdlibStreams(samplers[i]) :
              Sampled(i, RandomFunction_gen_sample(samplers[i], Reading(np_state, w),
                  Reading(py_state, v)))

SpecificFunctionsGenSample ==
    \E i \in 1..Len(samplers) :
        /\ CanSample(i, "SpecificFunctions")
        /\ \E w \in NumpyStreams(samplers[i]), v \in StdlibStreams(samplers[i]) :
              Sampled(i, SpecificFunctions_gen_sample(samplers[i], Reading(np_state, w),
                  Reading(py_state, v)))

\* the argument tuples sampled callables are invoked with (inputs in tenths)
InvokeArgs == {<<12>>, <<12, 40>>}

\* an invocation f(*a) of the callable returned by the fi-th gen_sample()
Invoke(fi, a) ==
    /\ Len(calls) < MaxInvocations
    /\ samplers[samples[fi].sampler].cls = "RandomFunction"
    /\ LET r == f(ClosureOf(fi), samplers[samples[fi].sampler], a)
       IN  calls' = Append(calls, [f |-> fi, args |-> a, raised |-> r.raised,
                                   msg |-> r.msg, output |-> r.output,
                                   samples_before |-> Len(samples)])
    /\ UNCHANGED <<np_state, py_state, samplers, given, samples>>
    /\ UNCHANGED domainVars
    /\ UNCHANGED secondRunVars
    /\ UNCHANGED threadVars

\* ------------------------------------------------ what is constructed
Ends == {-1, 2}
RangeArgs == {<<a, b>> : a \in Ends, b \in Ends}
DiscreteSetArgs == {Bare(7), Several(<<1, 2, 3>>)}
ComplexRectangleArgs == {[re |-> <<1, 4>>, im |-> <<-5, 0>>],
                         [re |-> <<2, -1>>, im |-> <<0, 0>>]}
ComplexSectorArgs == {[modulus |-> <<0, 1>>, argument |-> <<-1, 1>>]}
RandomFunctionArgs == {[input_dim |-> 1, output_dim |-> 1, num_terms |-> 1],
                       [input_dim |-> 2, output_dim |-> 1, num_terms |-> 1]}
SpecificFunctionsArgs == {Several(<<"sin", "cos", "tan">>), Bare("step_func")}

Built(objs, gs) == samplers = objs /\ given = gs

\* one sampling set of any class, or a RandomFunction of one input next to
\* a ComplexRectangle
Construct ==
    \/ \E g \in RangeArgs : Built(<<RealInterval(g)>>, <<g>>)
    \/ \E g \in RangeArgs : Built(<<IntegerRange(g)>>, <<g>>)
    \/ \E g \in DiscreteSetArgs : Built(<<DiscreteSet(g)>>, <<g>>)
    \/ \E g \in ComplexRectangleArgs : Built(<<ComplexRectangle(g)>>, <<g>>)
    \/ \E g \in ComplexSectorArgs : Built(<<ComplexSector(g)>>, <<g>>)
    \/ \E g \in {c \in RandomFunctionArgs : c.input_dim > 1} :
          Built(<<RandomFunction(g)>>, <<g>>)
    \/ \E g \in SpecificFunctionsArgs : Built(<<SpecificFunctions(g)>>, <<g>>)
    \/ \E g \in {c \in RandomFunctionArgs : c.input_dim = 1} :
          Built(<<RandomFunction(g),
                  ComplexRectangle([re |-> <<2, 2>>, im |-> <<0, 0>>])>>,
                <<g, [re |-> <<2, 2>>, im |-> <<0, 0>>]>>)

\* the classes drawing from np.random, and those drawing from random
NumpyClasses == {"RealInterval", "IntegerRange", "ComplexRectangle",
                 "ComplexSector", "RandomFunction"}
StdlibClasses == {"DiscreteSet", "SpecificFunctions"}

DomainIdle ==
    /\ shapes = <<>>
    /\ display_name = ""
    /\ args = <<>>
    /\ outcome = "idle"
    /\ message = ""
    /\ lines = <<>>
    /\ validated = <<>>
    /\ invoked = <<>>
    /\ result = NoResult

Init ==
    /\ DomainIdle
    /\ Construct
    /\ np_state = Unseeded
    /\ py_state = Unseeded
    /\ samples = <<>>
    /\ calls = <<>>
    /\ SecondRunIdle
    /\ ThreadsIdle

Next ==
    \/ RealIntervalGenSample
    \/ IntegerRangeGenSample
    \/ DiscreteSetGenSample
    \/ ComplexRectangleGenSample
    \/ ComplexSectorGenSample
    \/ RandomFunctionGenSample
    \/ SpecificFunctionsGenSample
    \/ \E fi \in 1..Len(samples), a \in InvokeArgs : Invoke(fi, a)

Spec == Init /\ [][Next]_vars

\* ------------------------------------------- two runs of one grading run
\* gen_sample() of whichever class the sampling set has
gen_sample(self, np, py) ==
    CASE self.cls = "RealInterval" -> RealInterval_gen_sample(self, np, py)
      [] self.cls = "IntegerRange" -> IntegerRange_gen_sample(self, np, py)
      [] self.cls = "DiscreteSet" -> DiscreteSet_gen_sample(self, np, py)
      [] self.cls = "ComplexRectangle" -> ComplexRectangle_gen_sample(self, np, py)
      [] self.cls = "ComplexSector" -> ComplexSector_gen_sample(self, np, py)
      [] self.cls = "RandomFunction" -> RandomFunction_gen_sample(self, np, py)
      [] self.cls = "SpecificFunctions" -> SpecificFunctions_gen_sample(self, np, py)

\* one sampling set of each class, configured as in the classes' docstrings
GradingSamplers ==
    <<RealInterval(<<-2, 4>>),
      IntegerRange(<<-2, 4>>),
      DiscreteSet(Several(<<1, 2, 3, 4>>)),
      ComplexRectangle([re |-> <<1, 4>>, im |-> <<-5, 0>>]),
      ComplexSector([modulus |-> <<0, 1>>, argument |-> <<-1, 1>>]),
      RandomFunction([input_dim |-> 1, output_dim |-> 1, num_terms |-> 3]),
      SpecificFunctions(Several(<<"sin", "cos", "tan">>))>>

GradingGiven ==
    <<<<-2, 4>>, <<-2, 4>>, Several(<<1, 2, 3, 4>>),
      [re |-> <<1, 4>>, im |-> <<-5, 0>>],
      [modulus |-> <<0, 1>>, argument |-> <<-1, 1>>],
      [input_dim |-> 1, output_dim |-> 1, num_terms |-> 3],
      Several(<<"sin", "cos", "tan">>)>>

\* The sampling sets the two runs sample: a few of them at a time, of both
\* sources, and every class in one of the lists.
RunSamplers ==
    <<<<RealInterval(<<1, 3>>), IntegerRange(<<-1, 2>>),
        DiscreteSet(Several(<<1, 2, 3>>))>>,
      <<ComplexRectangle([re |-> <<1, 4>>, im |-> <<0, 0>>]),
        SpecificFunctions(Several(<<"sin", "cos", "tan">>))>>,
      <<ComplexSector([modulus |-> <<1, 1>>, argument |-> <<-1, 1>>]),
        DiscreteSet(Several(<<1, 2, 3>>))>>,
      <<RandomFunction([input_dim |-> 1, output_dim |-> 1, num_terms |-> 1]),
        SpecificFunctions(Several(<<"sin", "cos", "tan">>))>>>>

RunGiven ==
    <<<<<<1, 3>>, <<-1, 2>>, Several(<<1, 2, 3>>)>>,
      <<[re |-> <<1, 4>>, im |-> <<0, 0>>],
        Several(<<"sin", "cos", "tan">>)>>,
      <<[modulus |-> <<1, 1>>, argument |-> <<-1, 1>>],
        Several(<<1, 2, 3>>)>>,
      <<[input_dim |-> 1, output_dim |-> 1, num_terms |-> 1],
        Several(<<"sin", "cos", "tan">>)>>>>

\* Both runs start with their generators seeded, then make the same
\* gen_sample() calls in the same order.  The first run's seeds are taken
\* as 0; the second run seeds both generators alike, or one of them
\* otherwise.
InitRuns ==
    /\ DomainIdle
    /\ \E k \in 1..Len(RunSamplers) : Built(RunSamplers[k], RunGiven[k])
    /\ \E again \in {<<0, 0>>, <<0, 1>>, <<1, 0>>} :
          seeds = [np |-> 0, py |-> 0, np2 |-> again[1], py2 |-> again[2]]
    /\ np_state = Seeded(seeds.np)
    /\ py_state = Seeded(seeds.py)
    /\ np_state2 = Seeded(seeds.np2)
    /\ py_state2 = Seeded(seeds.py2)
    /\ samples = <<>>
    /\ samples2 = <<>>
    /\ calls = <<>>
    /\ ThreadsIdle

\* a second generator that reads its stream wherever the first one does
ReplayedAnywhere(g, h, w, all) == all

\* The stretches generator h of the second run may read while generator g
\* of the first run, of the same kind, reads w out of the stretches all.
\* Seeded alike and as far along, the two are at the same place of the same
\* stream and h reads w too; seeded otherwise, h is in another stream,
\* whose stretch may be any, w included.
Replayed(g, h, w, all) ==
    IF h.seed = g.seed /\ h.pos = g.pos THEN {w} ELSE all

BothRunsGenSample(i) ==
    /\ Len(samples) < MaxSamples
    /\ WithinStream(2 * NumpyDraws(samplers[i]))
    /\ \E w \in NumpyStreams(samplers[i]), v \in StdlibStreams(samplers[i]) :
       \E w2 \in Replayed(np_state, np_state2, w, NumpyStreams(samplers[i])),
          v2 \in Replayed(py_state, py_state2, v,
                          StdlibStreams(samplers[i])) :
          LET r == gen_sample(samplers[i], Reading(np_state, w),
                              Reading(py_state, v))
              r2 == gen_sample(samplers[i], Reading(np_state2, w2),
                               Reading(py_state2, v2))
          IN  /\ samples' = Append(samples, [sampler |-> i, value |-> r.value])
              /\ np_state' = Rest(r.np)
              /\ py_state' = Rest(r.py)
              /\ samples2' = Append(samples2,
                                    [sampler |-> i, value |-> r2.value])
              /\ np_state2' = Rest(r2.np)
              /\ py_state2' = Rest(r2.py)
    /\ UNCHANGED <<samplers, given, calls, seeds>>
    /\ UNCHANGED domainVars
    /\ UNCHANGED threadVars

NextRuns == \E i \in 1..Len(samplers) : BothRunsGenSample(i)

SpecRuns == InitRuns /\ [][NextRuns]_vars

\* ------------------------------- threads sharing the process's generator
\* Several threads call gen_sample() on the same sampling sets with no lock
\* of the library's own.  A draw (np.random.random_sample, np.random.randint)
\* is one call into numpy, made under the interpreter lock, so it reads and
\* advances the generator in one step; the threads can be switched anywhere
\* between two draws, also between the two draws of one ComplexRectangle or
\* ComplexSector sample.  The first draw's value is a temporary of the
\* calling thread.

\* a thread that is in no gen_sample() call; cut records whether another
\* thread has drawn since this thread's first draw
Waiting == [pc |-> "idle", sampler |-> 0, part |-> 0, cut |-> FALSE]

\* the sampling set whose gen_sample() thread t is running
Self(t) == samplers[threads[t].sampler]

\* the threads after a draw of thread t that leaves t as the record now
Drawn(t, now) ==
    [o \in DOMAIN threads |->
        IF o = t THEN now
        ELSE IF threads[o].pc = "second"
             THEN [threads[o] EXCEPT !.cut = TRUE]
             ELSE threads[o]]

\* thread t's call returns v after its last draw
Returning(t, v) ==
    /\ threads' = Drawn(t, Waiting)
    /\ returned' = [sampler |-> threads[t].sampler, value |-> v,
                    cut |-> threads[t].cut]

\* thread t calls samplers[i].gen_sample()
ThreadCall(t, i) ==
    /\ threads[t].pc = "idle"
    /\ np_state.pos < MaxDraws
    /\ threads' = [threads EXCEPT ![t] = [Waiting EXCEPT !.pc = "first",
                                                         !.sampler = i]]
    /\ UNCHANGED returned
    /\ UNCHANGED samplingVars
    /\ UNCHANGED domainVars
    /\ UNCHANGED secondRunVars

\* IntegerRange.gen_sample: its single draw, and the return
IntegerRangeDraw(t) ==
    /\ threads[t].pc = "first"
    /\ Self(t).cls = "IntegerRange"
    /\ \E w \in NumpyStreams(Self(t)), v \in StdlibStreams(Self(t)) :
          LET r == IntegerRange_gen_sample(Self(t), Reading(np_state, w),
                                           Reading(py_state, v))
          IN  /\ np_state' = Rest(r.np)
              /\ py_state' = Rest(r.py)
              /\ Returning(t, r.value)
    /\ UNCHANGED <<samplers, given, samples, calls>>
    /\ UNCHANGED domainVars
    /\ UNCHANGED secondRunVars

\* the left operand of line 168 or line 198: self.re.gen_sample() or
\* self.modulus.gen_sample()
FirstPart(t, part) ==
    /\ \E w \in NumpyStreams(part), v \in StdlibStreams(part) :
          LET r == RealInterval_gen_sample(part, Reading(np_state, w),
                                           Reading(py_state, v))
          IN  /\ np_state' = Rest(r.np)
              /\ py_state' = Rest(r.py)
              /\ threads' = Drawn(t, [threads[t] EXCEPT !.pc = "second",
                                                       !.part = r.value])
    /\ UNCHANGED returned
    /\ UNCHANGED <<samplers, given, samples, calls>>
    /\ UNCHANGED domainVars
    /\ UNCHANGED secondRunVars

ComplexRectangleRe(t) ==
    /\ threads[t].pc = "first"
    /\ Self(t).cls = "ComplexRectangle"
    /\ FirstPart(t, Self(t).re)

ComplexSectorModulus(t) ==
    /\ threads[t].pc = "first"
    /\ Self(t).cls = "ComplexSector"
    /\ FirstPart(t, Self(t).modulus)

\* the right operand of line 168: self.im.gen_sample()*1j, and the return
ComplexRectangleImFromRe(t) ==
    /\ threads[t].pc = "second"
    /\ Self(t).cls = "ComplexRectangle"
    /\ \E w \in NumpyStreams(Self(t).re),
          v \in StdlibStreams(Self(t).re) :
          LET r == RealInterval_gen_sample(Self(t).re,
                     Reading(np_state, w), Reading(py_state, v))
          IN  /\ np_state' = Rest(r.np)
              /\ py_state' = Rest(r.py)
              /\ Returning(t, [re |-> threads[t].part, im |-> r.value])
    /\ UNCHANGED <<samplers, given, samples, calls>>
    /\ UNCHANGED domainVars
    /\ UNCHANGED secondRunVars
ComplexRectangleIm(t) ==
    /\ threads[t].pc = "second"
    /\ Self(t).cls = "ComplexRectangle"
    /\ \E w \in NumpyStreams(Self(t).im),
          v \in StdlibStreams(Self(t).im) :
          LET r == RealInterval_gen_sample(Self(t).im,
                     Reading(np_state, w), Reading(py_state, v))
          IN  /\ np_state' = Rest(r.np)
              /\ py_state' = Rest(r.py)
              /\ Returning(t, [re |-> threads[t].part, im |-> r.value])
    /\ UNCHANGED <<samplers, given, samples, calls>>
    /\ UNCHANGED domainVars
    /\ UNCHANGED secondRunVars

\* the right operand of line 198: np.exp(1j * self.argument.gen_sample()),
\* and the return (the product is kept in polar form)
ComplexSectorArgument(t) ==
    /\ threads[t].pc = "second"
    /\ Self(t).cls = "ComplexSector"
    /\ \E w \in NumpyStreams(Self(t).argument),
          v \in StdlibStreams(Self(t).argument) :
          LET r == RealInterval_gen_sample(Self(t).argument,
                     Reading(np_state, w), Reading(py_state, v))
          IN  /\ np_state' = Rest(r.np)
              /\ py_state' = Rest(r.py)
              /\ Returning(t, [modulus |-> threads[t].part,
                               argument |-> r.value])
    /\ UNCHANGED <<samplers, given, samples, calls>>
    /\ UNCHANGED domainVars
    /\ UNCHANGED secondRunVars

\* The threads share one ComplexRectangle, one ComplexSector and one
\* IntegerRange, configured as in the classes' docstrings.
InitThreads ==
    /\ DomainIdle
    /\ Built(<<GradingSamplers[4], GradingSamplers[5], GradingSamplers[2]>>,
             <<GradingGiven[4], GradingGiven[5], GradingGiven[2]>>)
    /\ np_state = Unseeded
    /\ py_state = Unseeded
    /\ samples = <<>>
    /\ calls = <<>>
    /\ SecondRunIdle
    /\ threads = [t \in 1..MaxThreads |-> Waiting]
    /\ returned = NoSample

NextThreads ==
    \E t \in 1..MaxThreads :
        \/ \E i \in 1..Len(samplers) : ThreadCall(t, i)
        \/ IntegerRangeDraw(t)
        \/ ComplexRectangleRe(t)
        \/ ComplexRectangleIm(t)
        \/ ComplexSectorModulus(t)
        \/ ComplexSectorArgument(t)

SpecThreads == InitThreads /\ [][NextThreads]_vars

\* ======================================================================
\*                       properties: specify_domain.py
\* ======================================================================
Called == outcome # "idle"
ArityOk == Len(args) = Len(shapes)
Passes(i) == has_shape(shapes[i], args[i]).ok
NameShown == IF display_name = "" THEN "cross" ELSE display_name

\* C1: a call with n # k arguments raises the single-line DomainError
\* "There was an error evaluating function <name>(...): expected k inputs,
\* but received n."; no validator is run, no report line is produced and
\* the wrapped function is not invoked.
C1_ArityErrorShortCircuits ==
    (Called /\ ~ArityOk) =>
        /\ outcome = "DomainError"
        /\ message = "There was an error evaluating function " \o NameShown
                     \o "(...): expected " \o ToString(Len(shapes))
                     \o " inputs, but received " \o ToString(Len(args)) \o "."
        /\ validated = <<>>
        /\ lines = <<>>
        /\ invoked = <<>>
        /\ result = NoResult

\* cross(a): one argument for two declared shapes; and a call with too many
C1_Witness ==
    /\ outcome = "DomainError"
    /\ Len(shapes) = 2
    /\ Len(args) = 3
    /\ Passes(1) /\ Passes(2)

\* C2: the wrapped function is invoked iff the arity matches and every
\* argument passes its validator; it is then called exactly once with the
\* original arguments in order and its result is returned unchanged;
\* otherwise a DomainError is raised and nothing is returned.
C2_DelegatesIffAllValid ==
    Called =>
        LET ok == ArityOk /\ \A i \in 1..Len(shapes) : Passes(i)
        IN  /\ ok => /\ outcome = "returned"
                     /\ invoked = <<args>>
                     /\ result = func(args)
                     /\ message = ""
            /\ ~ok => /\ outcome = "DomainError"
                      /\ invoked = <<>>
                      /\ result = NoResult
                      /\ message # ""

\* a delegated call one of whose arguments the scalar validator unwraps
C2_Witness ==
    /\ outcome = "returned"
    /\ Len(args) = 2
    /\ args[1] = Scalar5
    /\ args[2] = Vec3

\* the report line the claim describes for argument i
Ordinal(i) == IF i = 1 THEN "1st" ELSE IF i = 2 THEN "2nd"
              ELSE IF i = 3 THEN "3rd" ELSE ToString(i) \o "th"
Expected(shape) == IF shape = <<1>> THEN "scalar" ELSE MathArrayDescription(shape)
ClaimedLine(i) ==
    IF Passes(i)
    THEN Ordinal(i) \o " input is ok: received a " \o Expected(shapes[i]) \o " as expected"
    ELSE Ordinal(i) \o " input has an error: "
         \o has_shape(shapes[i], args[i]).error_message

\* C3: when the arity matches and some argument fails, every argument is
\* validated and the DomainError's report is the header followed by exactly
\* n lines in argument order, line i being the ok line or the error line of
\* argument i alone, labelled 1st, 2nd, 3rd, and ith from the 4th on.
C3_CompleteReport ==
    (Called /\ ArityOk /\ \E i \in 1..Len(args) : ~Passes(i)) =>
        /\ outcome = "DomainError"
        /\ Len(validated) = Len(args)
        /\ \A i \in 1..Len(validated) :
              validated[i].index = i /\ validated[i].arg = args[i]
        /\ Len(lines) = Len(args) + 1
        /\ lines[1] = "There was an error evaluating function " \o NameShown \o "(...)"
        /\ \A i \in 1..Len(args) : lines[i + 1] = ClaimedLine(i)
        /\ message = Join(lines)

\* the first argument fails, the later ones (up to a 4th) are still reported
C3_Witness ==
    /\ outcome = "DomainError"
    /\ Len(args) = 4
    /\ ArityOk
    /\ ~Passes(1)
    /\ Passes(2) /\ Passes(3) /\ Passes(4)
    /\ lines[5] = "4th input is ok: received a vector of length 3 as expected"

ScalarCall ==
    /\ Called
    /\ shapes = <<<<1>>>>
    /\ Len(args) = 1
    /\ args[1] \in {Number5, Scalar5}

\* C4 as stated: the wrapper declared with shapes=[1] accepts a plain number
\* and a 0-dimensional array and returns (hands on) a bare number in both
\* cases.
C4_Original ==
    ScalarCall =>
        /\ outcome = "returned"
        /\ result.args[1].cls = "Number"

\* C4 amended: the wrapper accepts both; its scalar validator returns the
\* unwrapped bare number in both cases, and the wrapper discards that value
\* and calls the function with the original argument.
C4_ScalarAccepted ==
    ScalarCall =>
        /\ outcome = "returned"
        /\ validated[1].res.ok
        /\ validated[1].res.value = Obj("Number", <<>>, args[1].item)
        /\ result = func(args)

C4_Witness ==
    /\ ScalarCall
    /\ args[1] = Scalar5
    /\ outcome = "returned"

\* ======================================================================
\*                          properties: sampling.py
\* ======================================================================
Lo(i) == Min(given[i][1], given[i][2])
Hi(i) == Max(given[i][1], given[i][2])
SamplesOf(i) == {k \in 1..Len(samples) : samples[k].sampler = i}
Elements(seq) == {seq[k] : k \in 1..Len(seq)}

\* C5: a RealInterval or IntegerRange built from bounds (a, b) in either
\* order has config start = min(a, b) <= stop = max(a, b), in the state
\* after construction and in every later state.
C5_BoundsOrdered ==
    \A i \in 1..Len(samplers) :
        samplers[i].cls \in {"RealInterval", "IntegerRange"} =>
            /\ samplers[i].config.start = Lo(i)
            /\ samplers[i].config.stop = Hi(i)
            /\ samplers[i].config.start <= samplers[i].config.stop

\* bounds given out of order, after the sampling set has been sampled
C5_Witness ==
    /\ Len(samplers) = 1
    /\ samplers[1].cls = "RealInterval"
    /\ given[1] = <<2, -1>>
    /\ samplers[1].config = [start |-> -1, stop |-> 2]
    /\ Len(samples) = MaxSamples

\* C6: every sample of an IntegerRange(a, b) is an integer of the closed
\* range [min(a,b), max(a,b)], and every integer of that range, the upper
\* endpoint included, is a possible return value.
C6_IntegerRangeClosed ==
    \A i \in 1..Len(samplers) :
        samplers[i].cls = "IntegerRange" =>
            /\ \A k \in SamplesOf(i) : samples[k].value \in Lo(i)..Hi(i)
            /\ \A v \in Lo(i)..Hi(i) : \E w \in NumpyStreams(samplers[i]) :
                  IntegerRange_gen_sample(samplers[i], Reading(np_state, w),
                                          py_state).value = v

\* the upper endpoint is drawn from a range given out of order
C6_Witness ==
    /\ Len(samplers) = 1
    /\ samplers[1].cls = "IntegerRange"
    /\ given[1] = <<2, -1>>
    /\ \E k \in SamplesOf(1) : samples[k].value = 2

\* C7: a DiscreteSet of a bare scalar v samples exactly v; a DiscreteSet of
\* a non-empty tuple samples only members, every member is a possible
\* return value, and the configured tuple is unchanged by gen_sample().
C7_DiscreteSetMembers ==
    \A i \in 1..Len(samplers) :
        samplers[i].cls = "DiscreteSet" =>
            /\ samplers[i].config = given[i].items
            /\ \A k \in SamplesOf(i) : samples[k].value \in Elements(given[i].items)
            /\ given[i].bare => \A k \in SamplesOf(i) : samples[k].value = given[i].items[1]
            /\ \A m \in Elements(given[i].items) :
                  \E w \in StdlibStreams(samplers[i]) :
                      DiscreteSet_gen_sample(samplers[i], np_state,
                                             Reading(py_state, w)).value = m

\* the last member of the tuple (1, 2, 3) is drawn, after an earlier sample
C7_Witness ==
    /\ Len(samplers) = 1
    /\ samplers[1].cls = "DiscreteSet"
    /\ given[1] = Several(<<1, 2, 3>>)
    /\ Len(samples) = 2
    /\ samples[2].value = 3

\* the coefficient cells an output was computed from
CellsOf(out, name) ==
    [i \in 1..Len(out.components) |->
        [j \in 1..Len(out.components[i].sum) |->
            [k \in 1..Len(out.components[i].sum[j]) |->
                IF name = "A" THEN out.components[i].sum[j][k].A
                ELSE IF name = "B" THEN out.components[i].sum[j][k].B
                ELSE out.components[i].sum[j][k].C]]]

\* C8: a sampled callable f returns the same output for the same input on
\* every invocation, whatever gen_sample() calls and invocations of other
\* callables happen in between, and computes it from the coefficients drawn
\* by its own gen_sample() call.
C8_CallableDeterministic ==
    /\ \A c \in 1..Len(calls), d \in 1..Len(calls) :
          (calls[c].f = calls[d].f /\ calls[c].args = calls[d].args) =>
              /\ calls[c].raised = calls[d].raised
              /\ calls[c].output = calls[d].output
    /\ \A c \in 1..Len(calls) :
          calls[c].output.computed =>
              /\ CellsOf(calls[c].output, "A") = samples[calls[c].f].value.A
              /\ CellsOf(calls[c].output, "B") = samples[calls[c].f].value.B
              /\ CellsOf(calls[c].output, "C") = samples[calls[c].f].value.C

\* f is invoked, its RandomFunction is sampled again and hands back another
\* callable g, g is invoked and then f is invoked again as the first time
C8_Witness ==
    /\ Len(calls) = 3
    /\ calls[1].f = 1 /\ calls[2].f = 2 /\ calls[3].f = 1
    /\ calls[1].args = calls[3].args
    /\ calls[2].args = calls[1].args
    /\ calls[1].output.computed
    /\ calls[2].output.computed
    /\ calls[1].samples_before = 1
    /\ calls[3].samples_before = 2
    /\ samples[2].sampler = samples[1].sampler
    /\ samples[2].value # samples[1].value
    /\ calls[2].output # calls[1].output

\* C9: gen_sample() of a RandomFunction never fails for arity reasons (it
\* always hands back a callable expecting input_dim arguments); every
\* invocation of a sampled f with a number of arguments other than
\* input_dim raises ConfigError "Expected <input_dim> arguments, but
\* received <n>" without computing an output, and every correctly sized
\* invocation succeeds, also after a failed one.
C9_ArityCheckedPerCall ==
    /\ \A k \in 1..Len(samples) :
          samplers[samples[k].sampler].cls = "RandomFunction" =>
              samples[k].value.input_dim
                  = samplers[samples[k].sampler].config.input_dim
    /\ \A c \in 1..Len(calls) :
          LET input_dim == samplers[samples[calls[c].f].sampler].config.input_dim
              n == Len(calls[c].args)
          IN  /\ n # input_dim =>
                    /\ calls[c].raised = "ConfigError"
                    /\ calls[c].msg = "Expected " \o ToString(input_dim)
                                      \o " arguments, but received " \o ToString(n)
                    /\ ~calls[c].output.computed
              /\ n = input_dim =>
                    /\ calls[c].raised = ""
                    /\ calls[c].output.computed

\* f fails on two arguments for input_dim = 1, then succeeds on one
C9_Witness ==
    /\ Len(calls) = 2
    /\ calls[1].f = calls[2].f
    /\ calls[1].raised = "ConfigError"
    /\ calls[1].msg = "Expected 1 arguments, but received 2"
    /\ calls[2].raised = ""
    /\ calls[2].output.computed

SameAt(k) == samples[k].value = samples2[k].value

Returned(cls) ==
    /\ returned.sampler # 0
    /\ samplers[returned.sampler].cls = cls

\* v/RngMod lies between the two given bounds, whichever is the smaller
Within(v, range) ==
    /\ Min(range[1], range[2]) * RngMod <= v
    /\ v <= Max(range[1], range[2]) * RngMod

\* C11: however the draws of concurrently running gen_sample() calls are
\* interleaved on the shared generator, also between the two draws of one
\* ComplexRectangle or ComplexSector sample, every returned sample lies in
\* its own sampling set's range: a ComplexRectangle sample has its real
\* part in [r0, r1] and its imaginary part in [i0, i1], a ComplexSector
\* sample its modulus and argument in theirs, and an IntegerRange sample
\* lies in its closed range.
C11_RangeUnderInterleaving ==
    /\ Returned("ComplexRectangle") =>
          /\ Within(returned.value.re, given[returned.sampler].re)
          /\ Within(returned.value.im, given[returned.sampler].im)
    /\ Returned("ComplexSector") =>
          /\ Within(returned.value.modulus, given[returned.sampler].modulus)
          /\ Within(returned.value.argument, given[returned.sampler].argument)
    /\ Returned("IntegerRange") =>
          returned.value \in Lo(returned.sampler)..Hi(returned.sampler)

\* a ComplexRectangle sample has been returned whose two draws were
\* separated by another thread's draw
C11_Witness ==
    /\ Returned("ComplexRectangle")
    /\ returned.cut
    /\ returned.value.im < 0

====
